---------------------------- MODULE Spec2Model ----------------------------
(***************************************************************************)
(* Sentinel-1 / Sentinel-2 coverage viewer (src/app.py).                   *)
(*                                                                         *)
(* A datetime is modelled by its proleptic Gregorian ordinal (Python's     *)
(* date.toordinal): every datetime the page builds is midnight UTC, so the *)
(* ordinal orders and subtracts exactly as the datetimes do.  A str is a   *)
(* sequence of characters; an ASCII character is the one-character string, *)
(* a non-ASCII code point is named "U+xxxx".                               *)
(***************************************************************************)
EXTENDS Integers, Sequences, FiniteSets, TLC

VARIABLES
    pc,               \* position of the run in the script
    chosen_dt,        \* the date picked in the sidebar (ordinal)
    reference_dates,  \* get_reference_date's list argument
    period_days,      \* get_reference_date's period argument
    ref_dt,           \* get_reference_date's result
    feats,            \* one plan's raw feature list (RAW_FEATS[sat])
    ref_day,          \* refs[sat]: the resolved date as YYYY-MM-DD text
    keep_idxs,        \* indices of the features the date filter keeps
    aoi_choice,       \* the AOI selectbox
    disk,             \* path -> the file's bytes, Absent when there is no file
    uploads,          \* uploader key -> the uploaded bytes, Absent when none
    raw,              \* the bytes load_aoi resolved
    AOI_GDF,          \* the loaded AOI
    uploaded_files,   \* satellite -> plan bytes
    REFERENCE_DATES,  \* satellite -> sorted reference dates
    RAW_FEATS,        \* satellite -> raw feature list
    GDFS,             \* satellite -> geometries of the plan's rows
    refs,             \* satellite -> resolved date as text
    coverage_union,   \* union of the geometries drawn inside the AOI
    layers,           \* names of the layers added to the map
    coverage_percent, \* the readout, in hundredths of a percent
    messages          \* warnings, errors and prompts surfaced to the user

planVars == <<reference_dates, period_days, ref_dt, feats, ref_day, keep_idxs>>

pageVars ==
    <<aoi_choice, disk, uploads, raw, AOI_GDF, uploaded_files, REFERENCE_DATES,
      RAW_FEATS, GDFS, refs, coverage_union, layers, coverage_percent, messages>>

vars == <<pc, chosen_dt, planVars, pageVars>>

\* Python's None where a datetime is expected (ordinals start at 1).
None == 0

(***************************************************************************)
(* Sequences                                                               *)
(***************************************************************************)
Range(s) == {s[i] : i \in DOMAIN s}

Max(S) == CHOOSE x \in S : \A y \in S : y <= x

Min(S) == CHOOSE x \in S : \A y \in S : x <= y

\* sorted(set(xs)) for integers: strictly ascending, one entry per value.
RECURSIVE SortedOfSet(_)
SortedOfSet(S) ==
    IF S = {} THEN <<>>
    ELSE LET m == Min(S) IN <<m>> \o SortedOfSet(S \ {m})

\* list.sort() for integers: ascending, duplicates kept.
RECURSIVE SortAsc(_)
SortAsc(s) ==
    IF s = <<>> THEN <<>>
    ELSE LET m == Min(Range(s))
             i == CHOOSE k \in DOMAIN s : s[k] = m
         IN <<m>> \o SortAsc(SubSeq(s, 1, i - 1) \o SubSeq(s, i + 1, Len(s)))

(***************************************************************************)
(* The calendar of datetime (proleptic Gregorian)                          *)
(***************************************************************************)
IsLeap(y) == y % 4 = 0 /\ (y % 100 # 0 \/ y % 400 = 0)

DaysInMonth(y, m) ==
    IF m = 2 THEN (IF IsLeap(y) THEN 29 ELSE 28)
    ELSE IF m \in {4, 6, 9, 11} THEN 30 ELSE 31

DaysBeforeYear(y) ==
    LET y1 == y - 1 IN y1 * 365 + (y1 \div 4) - (y1 \div 100) + (y1 \div 400)

RECURSIVE DaysBeforeMonth(_, _)
DaysBeforeMonth(y, m) ==
    IF m = 1 THEN 0 ELSE DaysBeforeMonth(y, m - 1) + DaysInMonth(y, m - 1)

\* date(y, m, d).toordinal()
Ymd2Ord(y, m, d) == DaysBeforeYear(y) + DaysBeforeMonth(y, m) + d

\* date.fromordinal(n) as <<year, month, day>>
Ord2Ymd(n) ==
    LET n0   == n - 1
        n400 == n0 \div 146097
        r400 == n0 % 146097
        n100 == r400 \div 36524
        r100 == r400 % 36524
        n4   == r100 \div 1461
        r4   == r100 % 1461
        n1   == r4 \div 365
        r1   == r4 % 365
        year == n400 * 400 + 1 + n100 * 100 + n4 * 4 + n1
    IN IF n1 = 4 \/ n100 = 4 THEN <<year - 1, 12, 31>>
       ELSE LET m == CHOOSE k \in 1..12 :
                        /\ DaysBeforeMonth(year, k) <= r1
                        /\ r1 < DaysBeforeMonth(year, k) + DaysInMonth(year, k)
            IN <<year, m, r1 - DaysBeforeMonth(year, m) + 1>>

(***************************************************************************)
(* Characters                                                              *)
(***************************************************************************)
AsciiDigits == <<"0", "1", "2", "3", "4", "5", "6", "7", "8", "9">>

\* ARABIC-INDIC DIGIT TWO and FOUR: category Nd, so \d matches them and
\* int() reads them as 2 and 4.
ArabicTwo == "U+0662"

ArabicFour == "U+0664"

IsAsciiDigit(c) == \E k \in DOMAIN AsciiDigits : AsciiDigits[k] = c

\* \d of a str pattern: any Unicode decimal digit.
IsDigit(c) == IsAsciiDigit(c) \/ c \in {ArabicTwo, ArabicFour}

DigitVal(c) ==
    IF c = ArabicTwo THEN 2
    ELSE IF c = ArabicFour THEN 4
    ELSE (CHOOSE k \in DOMAIN AsciiDigits : AsciiDigits[k] = c) - 1

Letters ==
    {"a", "b", "c", "d", "e", "f", "g", "h", "i", "j", "k", "l", "m", "n", "o",
     "p", "q", "r", "s", "t", "u", "v", "w", "x", "y", "z", "T", "Z"}

\* \w of a str pattern: alphanumeric or underscore.
IsWordChar(c) == IsDigit(c) \/ c \in Letters \/ c = "_"

DigitChar(k) == AsciiDigits[k + 1]

Pad2(n) == <<DigitChar(n \div 10), DigitChar(n % 10)>>

Pad4(n) ==
    <<DigitChar(n \div 1000), DigitChar((n \div 100) % 10),
      DigitChar((n \div 10) % 10), DigitChar(n % 10)>>

\* str(n) of a non-negative int
RECURSIVE IntToStr(_)
IntToStr(n) ==
    IF n < 10 THEN <<DigitChar(n)>> ELSE IntToStr(n \div 10) \o <<DigitChar(n % 10)>>

(***************************************************************************)
(* Dates as text                                                           *)
(***************************************************************************)
\* dt.strftime("%Y-%m-%d")
strftime(dt) ==
    LET ymd == Ord2Ymd(dt)
    IN Pad4(ymd[1]) \o <<"-">> \o Pad2(ymd[2]) \o <<"-">> \o Pad2(ymd[3])

\* One match of DATE_RE starting at position i of v:
\* \b 2 0 \d \d - \d \d - \d \d \b
MatchesDateAt(v, i) ==
    /\ i + 9 <= Len(v)
    /\ (i = 1 \/ ~IsWordChar(v[i - 1]))
    /\ v[i] = "2" /\ v[i + 1] = "0"
    /\ IsDigit(v[i + 2]) /\ IsDigit(v[i + 3])
    /\ v[i + 4] = "-"
    /\ IsDigit(v[i + 5]) /\ IsDigit(v[i + 6])
    /\ v[i + 7] = "-"
    /\ IsDigit(v[i + 8]) /\ IsDigit(v[i + 9])
    /\ (i + 9 = Len(v) \/ ~IsWordChar(v[i + 10]))

\* DATE_RE.findall(v): the hits left to right, each search resuming after
\* the previous hit.
RECURSIVE FindAllFrom(_, _)
FindAllFrom(v, i) ==
    IF i + 9 > Len(v) THEN <<>>
    ELSE IF MatchesDateAt(v, i)
         THEN <<SubSeq(v, i, i + 9)>> \o FindAllFrom(v, i + 10)
         ELSE FindAllFrom(v, i + 1)

DATE_RE_findall(v) == FindAllFrom(v, 1)

\* The month field of strptime's %m: 1[0-2] | 0[1-9] | [1-9], followed by "-".
\* The length of the field matched at position i of s, 0 when none matches.
MonthFieldLen(s, i) ==
    IF /\ i + 2 <= Len(s) /\ s[i + 2] = "-"
       /\ \/ (s[i] = "1" /\ s[i + 1] \in {"0", "1", "2"})
          \/ (s[i] = "0" /\ IsAsciiDigit(s[i + 1]) /\ s[i + 1] # "0")
    THEN 2
    ELSE IF /\ i + 1 <= Len(s) /\ s[i + 1] = "-"
            /\ IsAsciiDigit(s[i]) /\ s[i] # "0"
         THEN 1
         ELSE 0

\* The day field of strptime's %d: 3[0-1] | [1-2]\d | 0[1-9] | [1-9] | " "[1-9],
\* the first alternative that matches at position i of s; 0 when none does.
DayFieldLen(s, i) ==
    IF i > Len(s) THEN 0
    ELSE IF /\ i + 1 <= Len(s)
            /\ \/ (s[i] = "3" /\ s[i + 1] \in {"0", "1"})
               \/ (s[i] \in {"1", "2"} /\ IsDigit(s[i + 1]))
               \/ (s[i] = "0" /\ IsAsciiDigit(s[i + 1]) /\ s[i + 1] # "0")
         THEN 2
         ELSE IF IsAsciiDigit(s[i]) /\ s[i] # "0" THEN 1
         ELSE IF i + 1 <= Len(s) /\ s[i] = " " /\ IsAsciiDigit(s[i + 1]) /\ s[i + 1] # "0"
              THEN 2
              ELSE 0

RECURSIVE StrToInt(_)
StrToInt(s) ==
    IF s = <<>> THEN 0
    ELSE StrToInt(SubSeq(s, 1, Len(s) - 1)) * 10
         + (IF s[Len(s)] = " " THEN 0 ELSE DigitVal(s[Len(s)]))

\* parse_date_ymd(s): strptime(s[:10], "%Y-%m-%d") at midnight UTC, None when
\* strptime raises (no match, unconverted data, or no such calendar day).
parse_date_ymd(s) ==
    LET t  == SubSeq(s, 1, IF Len(s) < 10 THEN Len(s) ELSE 10)
        ml == IF Len(t) >= 6 THEN MonthFieldLen(t, 6) ELSE 0
        dl == IF ml > 0 THEN DayFieldLen(t, 7 + ml) ELSE 0
    IN IF /\ Len(t) >= 6
          /\ \A k \in 1..4 : IsDigit(t[k])
          /\ t[5] = "-"
          /\ ml > 0 /\ dl > 0
          /\ Len(t) = 6 + ml + dl
       THEN LET y == StrToInt(SubSeq(t, 1, 4))
                m == StrToInt(SubSeq(t, 6, 5 + ml))
                d == StrToInt(SubSeq(t, 7 + ml, 6 + ml + dl))
            IN IF y >= 1 /\ d <= DaysInMonth(y, m) THEN Ymd2Ord(y, m, d) ELSE None
       ELSE None

(***************************************************************************)
(* Date/phase resolver                                                     *)
(***************************************************************************)
same_phase(chosen, ref, p) == ((chosen - ref) % p) = 0

\* The remainder of a division that truncates toward zero (C's %): the
\* residue has the sign of the dividend.
TruncMod(a, b) == IF a >= 0 THEN a % b ELSE 0 - ((0 - a) % b)

\* Python's % on ints: the residue has the sign of the divisor.
PyMod(a, b) == a % b

\* get_reference_date with the fallback returning the anchor itself.
get_reference_date_anchor(chosen, refs_list, p) ==
    IF refs_list = <<>> THEN None
    ELSE LET matches == SelectSeq(refs_list, LAMBDA r : same_phase(chosen, r, p))
         IN IF matches # <<>>
            THEN LET sorted == SortAsc(matches)
                     le     == {i \in DOMAIN sorted : sorted[i] <= chosen}
                 IN IF le # {} THEN sorted[Max(le)] ELSE sorted[1]
            ELSE LET before == {r \in Range(refs_list) : r <= chosen}
                 IN IF before # {} THEN Max(before) ELSE Min(Range(refs_list))

\* get_reference_date scanning the matches from the front (reversed() lost).
get_reference_date_forward(chosen, refs_list, p) ==
    IF refs_list = <<>> THEN None
    ELSE LET matches == SelectSeq(refs_list, LAMBDA r : same_phase(chosen, r, p))
         IN IF matches # <<>>
            THEN LET sorted == SortAsc(matches)
                     le     == {i \in DOMAIN sorted : sorted[i] <= chosen}
                 IN IF le # {} THEN sorted[Min(le)] ELSE sorted[1]
            ELSE LET before == {r \in Range(refs_list) : r <= chosen}
                     anchor == IF before # {} THEN Max(before) ELSE Min(Range(refs_list))
                     shift  == PyMod(chosen - anchor, p)
                 IN chosen - shift

get_reference_date(chosen, refs_list, p) ==
    IF refs_list = <<>> THEN None
    ELSE LET matches == SelectSeq(refs_list, LAMBDA r : same_phase(chosen, r, p))
         IN IF matches # <<>>
            THEN LET sorted == SortAsc(matches)
                     le     == {i \in DOMAIN sorted : sorted[i] <= chosen}
                 IN IF le # {} THEN sorted[Max(le)] ELSE sorted[1]
            ELSE LET before == {r \in Range(refs_list) : r <= chosen}
                     anchor == IF before # {} THEN Max(before) ELSE Min(Range(refs_list))
                     shift  == PyMod(chosen - anchor, p)
                 IN chosen - shift

(***************************************************************************)
(* Configuration                                                           *)
(***************************************************************************)
Sats == <<"S1A", "S1C", "S2A", "S2B", "S2C">>

PERIODS == [sat \in Range(Sats) |-> IF sat \in {"S1A", "S1C"} THEN 12 ELSE 10]

(***************************************************************************)
(* Files, geometries and the page's values before the run                  *)
(***************************************************************************)
\* No bytes: a path with no file, an uploader with no upload.
Absent == [present |-> FALSE, json |-> FALSE, features |-> <<>>]

\* Bytes that json.loads rejects.
Garbage == [present |-> TRUE, json |-> FALSE, features |-> <<>>]

\* The bytes of a GeoJSON feature collection.
FeatureCollection(fs) == [present |-> TRUE, json |-> TRUE, features |-> fs]

\* A GeoDataFrame variable holding None, or the geometries of its rows.
NoGdf == [isNone |-> TRUE, geoms |-> <<>>]

Gdf(gs) == [isNone |-> FALSE, geoms |-> gs]

\* coverage_union: None, or a geometry.
NoUnion == [isNone |-> TRUE, geom |-> {}]

\* No readout on the page.
NotShown == 0 - 1

BySat(x) == [sat \in Range(Sats) |-> x]

PageIdle ==
    /\ aoi_choice = "(None)"
    /\ disk = <<>>
    /\ uploads = <<>>
    /\ raw = Absent
    /\ AOI_GDF = NoGdf
    /\ uploaded_files = BySat(Absent)
    /\ REFERENCE_DATES = BySat(<<>>)
    /\ RAW_FEATS = BySat(<<>>)
    /\ GDFS = BySat(<<>>)
    /\ refs = BySat(<<>>)
    /\ coverage_union = NoUnion
    /\ layers = {}
    /\ coverage_percent = NotShown
    /\ messages = {}

(***************************************************************************)
(* Bounds                                                                  *)
(***************************************************************************)
\* The resolver is exercised on the days 2024-01-01 .. 2024-01-01 + DaySpan,
\* with reference lists of at most MaxRefs dates.
DaySpan == 20

MaxRefs == 2

FirstDay == Ymd2Ord(2024, 1, 1)

Days == FirstDay .. (FirstDay + DaySpan)

RefLists == {SortedOfSet(S) : S \in {T \in SUBSET Days : Cardinality(T) <= MaxRefs}}

(***************************************************************************)
(* SpecResolve: get_reference_date on every bounded input                  *)
(***************************************************************************)
InitResolve ==
    /\ pc = "call"
    /\ chosen_dt \in Days
    /\ reference_dates \in RefLists
    /\ period_days \in Range(PERIODS)
    /\ ref_dt = None
    /\ feats = <<>>
    /\ ref_day = <<>>
    /\ keep_idxs = {}
    /\ PageIdle

Resolve ==
    /\ pc = "call"
    /\ ref_dt' = get_reference_date(chosen_dt, reference_dates, period_days)
    /\ pc' = "returned"
    /\ UNCHANGED <<chosen_dt, reference_dates, period_days, feats, ref_day, keep_idxs>>
    /\ UNCHANGED pageVars

NextResolve == Resolve

SpecResolve == InitResolve /\ [][NextResolve]_vars

\* The reference dates as a set, and those a whole number of periods away
\* from the chosen date.
RefSet == Range(reference_dates)

InPhase == {r \in RefSet : \E k \in (0 - DaySpan)..DaySpan : chosen_dt - r = k * period_days}

NotAfter == {r \in RefSet : r <= chosen_dt}

\* C1 as claimed: the result is always an element of R, and none only when
\* R is empty.
C1_ResultAlwaysInR ==
    pc = "returned" =>
        /\ (ref_dt = None => reference_dates = <<>>)
        /\ (ref_dt # None => ref_dt \in RefSet)

\* C1 amended: get_reference_date returns none exactly when R is empty; for
\* non-empty R the result is an element of R exactly when some reference
\* date is in the same phase as d or the latest reference date <= d is less
\* than p days before d; in every other case the result is
\* d - ((d - anchor) mod p), a date <= d that is not an element of R.
C1_ResultInRIffNear ==
    pc = "returned" =>
        /\ (ref_dt = None <=> reference_dates = <<>>)
        /\ reference_dates # <<>> =>
              /\ ref_dt \in RefSet <=>
                    \/ InPhase # {}
                    \/ \E r \in NotAfter : chosen_dt - r < period_days
              /\ ref_dt \notin RefSet =>
                    /\ ref_dt <= chosen_dt
                    /\ chosen_dt - ref_dt < period_days

\* C1 witness: a non-empty R for which the fallback returned a date outside R.
C1_Witness ==
    /\ pc = "returned"
    /\ reference_dates # <<>>
    /\ ref_dt # None
    /\ ref_dt \notin RefSet

\* C2: when some reference date is in the same phase as d, the result is the
\* latest same-phase reference date <= d, or the earliest same-phase
\* reference date when none is <= d.
C2_LatestSamePhase ==
    (pc = "returned" /\ InPhase # {}) =>
        IF InPhase \cap NotAfter # {}
        THEN /\ ref_dt \in InPhase \cap NotAfter
             /\ \A r \in InPhase \cap NotAfter : r <= ref_dt
        ELSE /\ ref_dt \in InPhase
             /\ \A r \in InPhase : ref_dt <= r

\* C2 witness: two same-phase reference dates <= d, and the later returned.
C2_Witness ==
    /\ pc = "returned"
    /\ Cardinality(InPhase \cap NotAfter) >= 2
    /\ ref_dt = Max(InPhase \cap NotAfter)
    /\ ref_dt # Min(InPhase \cap NotAfter)

\* The anchor of the fallback rule.
Anchor == IF NotAfter # {} THEN Max(NotAfter) ELSE Min(RefSet)

\* C3: with R non-empty and no same-phase reference date, the result is
\* d - k for the k in 0..p-1 with k = (d - anchor) mod p, also when d is
\* before the anchor; p = 12, R = {2024-01-01, 2024-01-13}, d = 2024-01-20
\* gives 2024-01-13.
C3_FallbackFormula ==
    /\ (pc = "returned" /\ reference_dates # <<>> /\ InPhase = {}) =>
          \E k \in 0..(period_days - 1) :
              /\ ref_dt = chosen_dt - k
              /\ \E j \in (0 - DaySpan)..DaySpan : chosen_dt - Anchor = j * period_days + k
    /\ ( /\ pc = "returned"
         /\ period_days = 12
         /\ reference_dates = <<Ymd2Ord(2024, 1, 1), Ymd2Ord(2024, 1, 13)>>
         /\ chosen_dt = Ymd2Ord(2024, 1, 20) ) => ref_dt = Ymd2Ord(2024, 1, 13)

\* C3 witness: the fallback rule applied to a date before every reference date.
C3_Witness ==
    /\ pc = "returned"
    /\ reference_dates # <<>>
    /\ InPhase = {}
    /\ NotAfter = {}
    /\ ref_dt < chosen_dt

(***************************************************************************)
(* Property values and features                                            *)
(***************************************************************************)
\* A JSON property value: a string, null, or a number.
StrVal(t) == [kind |-> "str", text |-> t, num |-> 0]

NullVal == [kind |-> "null", text |-> <<>>, num |-> 0]

NumVal(n) == [kind |-> "num", text |-> <<>>, num |-> n]

\* v if isinstance(v, str) else str(v)
AsText(v) == IF v.kind = "str" THEN v.text ELSE IntToStr(v.num)

\* A feature: the values of its property map in order, and its geometry.
Feature(props, geom) == [properties |-> props, geometry |-> geom]

\* "2024-05-02"
Txt_0502 ==
    <<"2", "0", "2", "4", "-", "0", "5", "-", "0", "2">>

\* "2024-05-03"
Txt_0503 ==
    <<"2", "0", "2", "4", "-", "0", "5", "-", "0", "3">>

\* "2024-05-14"
Txt_0514 ==
    <<"2", "0", "2", "4", "-", "0", "5", "-", "1", "4">>

\* "20٢٤-05-14"
Txt_0514_Arabic ==
    <<"2", "0", ArabicTwo, ArabicFour, "-", "0", "5", "-", "1", "4">>

\* "2024-13-01"
Txt_Month13 ==
    <<"2", "0", "2", "4", "-", "1", "3", "-", "0", "1">>

\* "2024-02-30"
Txt_Feb30 ==
    <<"2", "0", "2", "4", "-", "0", "2", "-", "3", "0">>

\* "valid_from=2024-05-02T00:00Z"
Txt_ValidFrom ==
    <<"v", "a", "l", "i", "d", "_", "f", "r", "o", "m", "=", "2", "0", "2",
      "4", "-", "0", "5", "-", "0", "2", "T", "0", "0", ":", "0", "0", "Z">>

\* "2024-05-03/2024-05-14"
Txt_TwoDates ==
    <<"2", "0", "2", "4", "-", "0", "5", "-", "0", "3", "/", "2", "0", "2",
      "4", "-", "0", "5", "-", "1", "4">>

\* "12024-05-14"
Txt_DigitBefore ==
    <<"1", "2", "0", "2", "4", "-", "0", "5", "-", "1", "4">>

\* "id_2024-05-14"
Txt_UnderscoreBefore ==
    <<"i", "d", "_", "2", "0", "2", "4", "-", "0", "5", "-", "1", "4">>

PropertyTexts ==
    {Txt_0502, Txt_0514, Txt_0514_Arabic, Txt_Month13, Txt_Feb30,
     Txt_ValidFrom, Txt_TwoDates, Txt_DigitBefore, Txt_UnderscoreBefore}

PropertyMaps ==
    {<<StrVal(t)>> : t \in PropertyTexts}
        \cup {<<NumVal(20240514)>>, <<NullVal, StrVal(Txt_0503)>>}

(***************************************************************************)
(* Plan loading and the date filter                                        *)
(***************************************************************************)
\* The dates of one property value: the hits of DATE_RE that parse.
RECURSIVE ParsedHits(_)
ParsedHits(hits) ==
    IF hits = <<>> THEN <<>>
    ELSE LET dt == parse_date_ymd(Head(hits))
         IN (IF dt # None THEN <<dt>> ELSE <<>>) \o ParsedHits(Tail(hits))

RECURSIVE extract_dates_from_properties(_)
extract_dates_from_properties(props) ==
    IF props = <<>> THEN <<>>
    ELSE (IF Head(props).kind = "null" THEN <<>>
          ELSE ParsedHits(DATE_RE_findall(AsText(Head(props)))))
         \o extract_dates_from_properties(Tail(props))

feature_has_target_date(props, target_ymd) ==
    \E i \in DOMAIN props :
        /\ props[i].kind # "null"
        /\ \E h \in Range(DATE_RE_findall(AsText(props[i]))) : h = target_ymd

\* The dates list of one plan before sorting: dates.extend(...) per feature.
RECURSIVE PlanDates(_)
PlanDates(fs) ==
    IF fs = <<>> THEN <<>>
    ELSE extract_dates_from_properties(Head(fs).properties) \o PlanDates(Tail(fs))

\* sorted(dates): the set() lost, duplicates kept.
ref_dates_sorted_only(fs) == SortAsc(PlanDates(fs))

\* ref_dates[sat] = sorted(set(dates))
ref_dates_of(fs) == SortedOfSet(Range(PlanDates(fs)))

\* refs[sat]: the resolved date as text, the empty text for None.
ref_text(dt) == IF dt # None THEN strftime(dt) ELSE <<>>

\* keep_idxs of one plan: empty when the satellite is skipped.
keep_idxs_of(fs, day) ==
    IF day = <<>> \/ fs = <<>> THEN {}
    ELSE {i \in DOMAIN fs : feature_has_target_date(fs[i].properties, day)}

(***************************************************************************)
(* SpecPlan: one plan through loading, resolution and the date filter      *)
(***************************************************************************)
MaxFeats == 2

PlanSpan == 12

PlanFirstDay == Ymd2Ord(2024, 5, 2)

RECURSIVE SeqsUpTo(_, _)
SeqsUpTo(S, n) ==
    IF n = 0 THEN {<<>>}
    ELSE LET shorter == SeqsUpTo(S, n - 1)
         IN shorter \cup {Append(q, x) : q \in shorter, x \in S}

InitPlan ==
    /\ pc = "load"
    /\ feats \in SeqsUpTo({Feature(m, {}) : m \in PropertyMaps}, MaxFeats)
    /\ chosen_dt \in PlanFirstDay .. (PlanFirstDay + PlanSpan)
    /\ period_days \in Range(PERIODS)
    /\ reference_dates = <<>>
    /\ ref_dt = None
    /\ ref_day = <<>>
    /\ keep_idxs = {}
    /\ PageIdle

LoadPlan ==
    /\ pc = "load"
    /\ reference_dates' = ref_dates_of(feats)
    /\ pc' = "pick"
    /\ UNCHANGED <<chosen_dt, period_days, ref_dt, feats, ref_day, keep_idxs>>
    /\ UNCHANGED pageVars

ResolvePlan ==
    /\ pc = "pick"
    /\ LET dt == get_reference_date(parse_date_ymd(strftime(chosen_dt)),
                                    reference_dates, period_days)
       IN /\ ref_dt' = dt
          /\ ref_day' = ref_text(dt)
    /\ pc' = "filter"
    /\ UNCHANGED <<chosen_dt, period_days, reference_dates, feats, keep_idxs>>
    /\ UNCHANGED pageVars

FilterPlan ==
    /\ pc = "filter"
    /\ keep_idxs' = keep_idxs_of(feats, ref_day)
    /\ pc' = "filtered"
    /\ UNCHANGED <<chosen_dt, period_days, reference_dates, ref_dt, feats, ref_day>>
    /\ UNCHANGED pageVars

NextPlan == LoadPlan \/ ResolvePlan \/ FilterPlan

SpecPlan == InitPlan /\ [][NextPlan]_vars

\* t occurs in v as a substring.
IsSubstring(t, v) ==
    \E i \in 1..(Len(v) - Len(t) + 1) : SubSeq(v, i, i + Len(t) - 1) = t

\* The target text occurs somewhere in a non-null property value.
OccursInProperties(props, t) ==
    \E j \in DOMAIN props : props[j].kind # "null" /\ IsSubstring(t, AsText(props[j]))

\* C4: a feature passes the date filter exactly when the target text
\* YYYY-MM-DD occurs as a substring of one of its non-null property values,
\* whatever surrounds it; "valid_from=2024-05-02T00:00Z" matches the target
\* 2024-05-02 and not the target 2024-05-03.
C4_ExactSubstringMatch ==
    (pc = "filtered" /\ ref_day # <<>>) =>
        \A i \in DOMAIN feats :
            /\ i \in keep_idxs <=> OccursInProperties(feats[i].properties, ref_day)
            /\ feats[i].properties = <<StrVal(Txt_ValidFrom)>> =>
                  /\ ref_day = Txt_0502 => i \in keep_idxs
                  /\ ref_day = Txt_0503 => i \notin keep_idxs

\* Every pattern hit in the plan's non-null property values.
PlanHits ==
    {SubSeq(AsText(feats[i].properties[j]), k, k + 9) :
        <<i, j, k>> \in {t \in (DOMAIN feats) \X (1..2) \X (1..30) :
            /\ t[2] \in DOMAIN feats[t[1]].properties
            /\ feats[t[1]].properties[t[2]].kind # "null"
            /\ MatchesDateAt(AsText(feats[t[1]].properties[t[2]]), t[3])}}

\* The calendar date a hit denotes, None when there is no such day.
HitDate(h) ==
    LET y == DigitVal(h[1]) * 1000 + DigitVal(h[2]) * 100 + DigitVal(h[3]) * 10 + DigitVal(h[4])
        m == DigitVal(h[6]) * 10 + DigitVal(h[7])
        d == DigitVal(h[9]) * 10 + DigitVal(h[10])
    IN IF m \in 1..12 /\ d >= 1 /\ d <= DaysInMonth(y, m) THEN Ymd2Ord(y, m, d) ELSE None

\* C8: the reference-date list of a loaded plan is strictly ascending (so
\* free of duplicates) and holds exactly the valid calendar dates among the
\* pattern hits of the plan; invalid hits are dropped.
C8_SortedUniqueValidDates ==
    pc # "load" =>
        /\ \A i \in 1..(Len(reference_dates) - 1) : reference_dates[i] < reference_dates[i + 1]
        /\ Range(reference_dates) = {HitDate(h) : h \in PlanHits} \ {None}

\* C8 witness: a loaded plan with two reference dates and a dropped invalid hit.
C8_Witness ==
    /\ pc = "pick"
    /\ Len(reference_dates) >= 2
    /\ \E h \in PlanHits : HitDate(h) = None

\* C10: for a non-empty plan the date filter keeps some feature exactly when
\* the resolved date is a member of the plan's reference dates.
C10_FilterIffInR ==
    (pc = "filtered" /\ feats # <<>>) =>
        (keep_idxs # {} <=> ref_dt \in Range(reference_dates))

(***************************************************************************)
(* Geometry: a strip of square cells.  Atom 2k-1 is the interior of cell   *)
(* k, atoms 2k-2 and 2k are its two edges; a geometry is a set of atoms.   *)
(***************************************************************************)
IsCell(x) == x % 2 = 1

\* The closed polygon over cells a..b.
Rect(a, b) == (2 * a - 2) .. (2 * b)

\* A cell is 5 km by 5 km.
CellArea == 5 * 5

area(g) == CellArea * Cardinality({x \in g : IsCell(x)})

\* shapely's intersects: the geometries share a point, an edge included.
intersects(g, h) == g \cap h # {}

\* geometry.buffer(0): the polygonal part, parts without area dropped.
buffer0(g) == {x \in g : IsCell(x) \/ (x - 1) \in g \/ (x + 1) \in g}

unary_union(gs) == UNION Range(gs)

\* gdf["geometry"].buffer(0) over the rows of a feature list.
RowGeoms(fs) == [i \in DOMAIN fs |-> buffer0(fs[i].geometry)]

\* AOI_GDF is not None and not AOI_GDF.empty
AoiPresent(gdf) == ~gdf.isNone /\ gdf.geoms # <<>>

(***************************************************************************)
(* AOI loader                                                              *)
(***************************************************************************)
AOI_FILES == [c \in {"Qatari EEZ", "Saudi Arabia EEZ"} |->
                 IF c = "Qatari EEZ" THEN "aois/qatari_eez.geojson"
                 ELSE "aois/saudi_arabia_eez.geojson"]

QATARI_FALLBACK == "./qatari_eez.geojson"

AoiKey(choice) == IF choice = "Qatari EEZ" THEN "aoi_Qatari EEZ" ELSE "aoi_Saudi Arabia EEZ"

\* The bytes load_aoi resolves, with the fallback path tried for any choice.
aoi_raw_fallback_any(choice, d, u) ==
    IF d[AOI_FILES[choice]].present THEN d[AOI_FILES[choice]]
    ELSE IF d[QATARI_FALLBACK].present THEN d[QATARI_FALLBACK]
    ELSE u[AoiKey(choice)]

\* The bytes load_aoi resolves: the primary path, the fallback path for the
\* Qatari EEZ, else the upload (Absent when nothing was uploaded).
aoi_raw(choice, d, u) ==
    IF d[AOI_FILES[choice]].present THEN d[AOI_FILES[choice]]
    ELSE IF choice = "Qatari EEZ" /\ d[QATARI_FALLBACK].present THEN d[QATARI_FALLBACK]
    ELSE u[AoiKey(choice)]

\* The outcomes of load_aoi on resolved bytes, each a pair of the value
\* returned and the messages surfaced.  A feature collection without
\* features yields either an empty frame or, where the frame has no
\* geometry column to take a CRS from, an error: both are allowed.
load_aoi_outcomes(choice, bytes) ==
    IF choice \notin DOMAIN AOI_FILES THEN {<<NoGdf, {}>>}
    ELSE IF ~bytes.present THEN {<<NoGdf, {<<"warning", "aoi">>}>>}
    ELSE IF ~bytes.json THEN {<<NoGdf, {<<"error", "aoi">>}>>}
    ELSE IF bytes.features = <<>> THEN {<<Gdf(<<>>), {}>>, <<NoGdf, {<<"error", "aoi">>}>>}
    ELSE {<<Gdf(RowGeoms(bytes.features)), {}>>}

(***************************************************************************)
(* Satellite plan inputs                                                   *)
(***************************************************************************)
DEFAULT_FILES ==
    [sat \in Range(Sats) |->
        CASE sat = "S1A" -> "S1A_12day_reference_coverage_plan.geojson"
          [] sat = "S1C" -> "S1C_12day_reference_coverage_plan.geojson"
          [] sat = "S2A" -> "S2A_10day_reference_coverage_plan.geojson"
          [] sat = "S2B" -> "S2B_10day_reference_coverage_plan.geojson"
          [] sat = "S2C" -> "S2C_10day_reference_coverage_plan.geojson"]

\* The key of a satellite's plan uploader.
PlanKey(sat) ==
    CASE sat = "S1A" -> "u_S1A"
      [] sat = "S1C" -> "u_S1C"
      [] sat = "S2A" -> "u_S2A"
      [] sat = "S2B" -> "u_S2B"
      [] sat = "S2C" -> "u_S2C"

\* uploaded_files[sat]: the local file, else the upload.
plan_bytes(sat, d, u) ==
    IF d[DEFAULT_FILES[sat]].present THEN d[DEFAULT_FILES[sat]] ELSE u[PlanKey(sat)]

\* The gate passing unless every plan is missing.
all_plans_missing(files) == \A sat \in DOMAIN files : ~files[sat].present

\* any(v is None for v in uploaded_files.values())
any_plan_missing(files) == \E sat \in DOMAIN files : ~files[sat].present

(***************************************************************************)
(* Map layers and the coverage union                                       *)
(***************************************************************************)
\* The rows of one satellite that are drawn: those carrying the resolved
\* date and, with an AOI present, intersecting it.
drawn_rows(fs, gs, day, aoi) ==
    LET keep == keep_idxs_of(fs, day)
    IN IF AoiPresent(aoi)
       THEN {i \in keep : intersects(gs[i], unary_union(aoi.geoms))}
       ELSE keep

\* The satellite loop without the skip of a satellite left with no rows.
RECURSIVE render_sats_no_skip(_, _, _, _, _, _)
render_sats_no_skip(sats, fsBySat, gsBySat, dayBySat, aoi, acc) ==
    IF sats = <<>> THEN acc
    ELSE LET sat  == Head(sats)
             rows == drawn_rows(fsBySat[sat], gsBySat[sat], dayBySat[sat], aoi)
             sub  == UNION {gsBySat[sat][i] : i \in rows}
             cov  == IF ~AoiPresent(aoi) THEN acc[1]
                     ELSE IF acc[1].isNone THEN [isNone |-> FALSE, geom |-> sub]
                     ELSE [isNone |-> FALSE, geom |-> acc[1].geom \cup sub]
         IN render_sats_no_skip(Tail(sats), fsBySat, gsBySat, dayBySat, aoi,
                                <<cov, acc[2] \cup (IF rows = {} THEN {} ELSE {sat})>>)

\* One pass of the satellite loop: acc is <<coverage_union, layers>>.
RECURSIVE render_sats(_, _, _, _, _, _)
render_sats(sats, fsBySat, gsBySat, dayBySat, aoi, acc) ==
    IF sats = <<>> THEN acc
    ELSE LET sat  == Head(sats)
             rows == drawn_rows(fsBySat[sat], gsBySat[sat], dayBySat[sat], aoi)
             sub  == UNION {gsBySat[sat][i] : i \in rows}
             cov  == IF ~AoiPresent(aoi) THEN acc[1]
                     ELSE IF acc[1].isNone THEN [isNone |-> FALSE, geom |-> sub]
                     ELSE [isNone |-> FALSE, geom |-> acc[1].geom \cup sub]
         IN render_sats(Tail(sats), fsBySat, gsBySat, dayBySat, aoi,
                        IF rows = {} THEN acc ELSE <<cov, acc[2] \cup {sat}>>)

\* round(x, 2) of the ratio num/den, in hundredths.
Round2(num, den) == (2 * 100 * num + den) \div (2 * den)

\* The readout with the covered area not clipped to the AOI.
coverage_percent_unclipped(aoi, cov) ==
    LET aoi_area == area(unary_union(aoi.geoms))
        covered  == area(cov.geom)
    IN IF aoi_area = 0 THEN NotShown ELSE Round2(covered * 100, aoi_area)

\* The readout for a present AOI and a union: hundredths of a percent, and
\* NotShown when the division raises.
coverage_percent_of(aoi, cov) ==
    LET aoi_area == area(unary_union(aoi.geoms))
        covered  == area(unary_union(aoi.geoms) \cap cov.geom)
    IN IF aoi_area = 0 THEN NotShown ELSE Round2(covered * 100, aoi_area)

(***************************************************************************)
(* Spec: one run of the page, top to bottom                                *)
(***************************************************************************)
AoiWide == FeatureCollection(<<Feature(<<>>, Rect(1, 2)), Feature(<<>>, Rect(3, 4))>>)

AoiNarrow == FeatureCollection(<<Feature(<<>>, Rect(2, 3))>>)

AoiEast == FeatureCollection(<<Feature(<<>>, Rect(3, 4))>>)

\* A single point: buffer(0) leaves an empty polygon.
AoiPoint == FeatureCollection(<<Feature(<<>>, {4})>>)

PlanA ==
    FeatureCollection(<<Feature(<<StrVal(Txt_0502)>>, Rect(1, 2)),
                        Feature(<<StrVal(Txt_0503)>>, Rect(3, 3))>>)

PlanB ==
    FeatureCollection(<<Feature(<<StrVal(Txt_0502)>>, Rect(2, 3)),
                        Feature(<<NullVal, StrVal(Txt_0502)>>, Rect(3, 5))>>)

PlanC ==
    FeatureCollection(<<Feature(<<StrVal(Txt_ValidFrom)>>, Rect(1, 4)),
                        Feature(<<StrVal(Txt_0503)>>, Rect(1, 1))>>)

PlanEmpty == FeatureCollection(<<>>)

Paths == Range(AOI_FILES) \cup {QATARI_FALLBACK} \cup Range(DEFAULT_FILES)

Keys == {AoiKey(c) : c \in DOMAIN AOI_FILES} \cup {PlanKey(sat) : sat \in Range(Sats)}

\* What may lie at each path, and what may be uploaded under each key.
DiskOptions(path, choice) ==
    IF path \in Range(AOI_FILES)
    THEN (IF choice \in DOMAIN AOI_FILES /\ path = AOI_FILES[choice]
          THEN {Absent, Garbage, FeatureCollection(<<>>), AoiPoint, AoiWide}
          ELSE {Absent})
    ELSE IF path = QATARI_FALLBACK
    THEN (IF choice = "(None)" THEN {Absent} ELSE {Absent, AoiNarrow})
    ELSE IF path = DEFAULT_FILES["S1C"] THEN {Absent, PlanB, PlanEmpty}
    ELSE IF path = DEFAULT_FILES["S2A"] THEN {Absent}
    ELSE IF path = DEFAULT_FILES["S2B"] THEN {Absent, PlanEmpty}
    ELSE IF path = DEFAULT_FILES["S2C"] THEN {Absent, PlanA, PlanC}
    ELSE {Absent, PlanA}

UploadOptions(key, choice) ==
    IF key \in {AoiKey(c) : c \in DOMAIN AOI_FILES}
    THEN (IF choice \in DOMAIN AOI_FILES /\ key = AoiKey(choice)
          THEN {Absent, AoiEast} ELSE {Absent})
    ELSE IF key = PlanKey("S1A") THEN {Absent, PlanB}
    ELSE IF key = PlanKey("S2A") THEN {Absent, PlanC, PlanEmpty, Garbage}
    ELSE {Absent}

\* The functions on D taking at each x a value of the set options[x].
RECURSIVE Assignments(_, _)
Assignments(D, options) ==
    IF D = {} THEN {<<>>}
    ELSE LET x == CHOOSE y \in D : TRUE
         IN {f @@ (x :> v) : f \in Assignments(D \ {x}, options), v \in options[x]}

\* The dates offered to the date picker, as offsets from 2024-05-02.
ChosenOffsets == {0 - 1, 0, 1, 2, 12}

Init ==
    /\ pc = "aoi"
    /\ aoi_choice \in {"(None)"} \cup DOMAIN AOI_FILES
    /\ disk \in Assignments(Paths, [path \in Paths |-> DiskOptions(path, aoi_choice)])
    /\ uploads \in Assignments(Keys, [key \in Keys |-> UploadOptions(key, aoi_choice)])
    /\ chosen_dt \in {PlanFirstDay + k : k \in ChosenOffsets}
    /\ raw = Absent
    /\ AOI_GDF = NoGdf
    /\ uploaded_files = BySat(Absent)
    /\ REFERENCE_DATES = BySat(<<>>)
    /\ RAW_FEATS = BySat(<<>>)
    /\ GDFS = BySat(<<>>)
    /\ refs = BySat(<<>>)
    /\ coverage_union = NoUnion
    /\ layers = {}
    /\ coverage_percent = NotShown
    /\ messages = {}
    /\ reference_dates = <<>>
    /\ period_days = 10
    /\ ref_dt = None
    /\ feats = <<>>
    /\ ref_day = <<>>
    /\ keep_idxs = {}

\* AOI_GDF = load_aoi(aoi_choice) if aoi_choice != "(None)" else None
LoadAoi ==
    /\ pc = "aoi"
    /\ LET bytes == IF aoi_choice \in DOMAIN AOI_FILES
                    THEN aoi_raw(aoi_choice, disk, uploads) ELSE Absent
       IN /\ raw' = bytes
          /\ \E out \in load_aoi_outcomes(aoi_choice, bytes) :
                /\ AOI_GDF' = out[1]
                /\ messages' = messages \cup out[2]
    /\ pc' = "plans"
    /\ UNCHANGED <<chosen_dt, planVars, aoi_choice, disk, uploads, uploaded_files,
                   REFERENCE_DATES, RAW_FEATS, GDFS, refs, coverage_union, layers,
                   coverage_percent>>

\* The loop filling uploaded_files, with a warning per missing plan.
CollectPlans ==
    /\ pc = "plans"
    /\ uploaded_files' = [sat \in Range(Sats) |-> plan_bytes(sat, disk, uploads)]
    /\ messages' = messages \cup
          {<<"waiting", sat>> : sat \in {x \in Range(Sats) : ~plan_bytes(x, disk, uploads).present}}
    /\ pc' = "gate"
    /\ UNCHANGED <<chosen_dt, planVars, aoi_choice, disk, uploads, raw, AOI_GDF,
                   REFERENCE_DATES, RAW_FEATS, GDFS, refs, coverage_union, layers,
                   coverage_percent>>

\* st.info(...); st.stop()
StopForMissingPlan ==
    /\ pc = "gate"
    /\ any_plan_missing(uploaded_files)
    /\ messages' = messages \cup {<<"info", "provide all five">>}
    /\ pc' = "stopped"
    /\ UNCHANGED <<chosen_dt, planVars, aoi_choice, disk, uploads, raw, AOI_GDF,
                   uploaded_files, REFERENCE_DATES, RAW_FEATS, GDFS, refs,
                   coverage_union, layers, coverage_percent>>

\* json.loads raising inside load_reference_dates_and_gdfs: nothing catches
\* it, and the run ends with the exception on the page.
CrashOnBadPlan ==
    /\ pc = "gate"
    /\ ~any_plan_missing(uploaded_files)
    /\ \E sat \in Range(Sats) : ~uploaded_files[sat].json
    /\ messages' = messages \cup {<<"exception", "plan">>}
    /\ pc' = "crashed"
    /\ UNCHANGED <<chosen_dt, planVars, aoi_choice, disk, uploads, raw, AOI_GDF,
                   uploaded_files, REFERENCE_DATES, RAW_FEATS, GDFS, refs,
                   coverage_union, layers, coverage_percent>>

\* REFERENCE_DATES, GDFS, RAW_FEATS = load_reference_dates_and_gdfs(uploaded_files)
LoadPlans ==
    /\ pc = "gate"
    /\ ~any_plan_missing(uploaded_files)
    /\ \A sat \in Range(Sats) : uploaded_files[sat].json
    /\ RAW_FEATS' = [sat \in Range(Sats) |-> uploaded_files[sat].features]
    /\ REFERENCE_DATES' = [sat \in Range(Sats) |-> ref_dates_of(uploaded_files[sat].features)]
    /\ GDFS' = [sat \in Range(Sats) |-> RowGeoms(uploaded_files[sat].features)]
    /\ pc' = "pick"
    /\ UNCHANGED <<chosen_dt, planVars, aoi_choice, disk, uploads, raw, AOI_GDF,
                   uploaded_files, refs, coverage_union, layers, coverage_percent,
                   messages>>

\* The sidebar's date picker and the refs loop.
ResolveAll ==
    /\ pc = "pick"
    /\ LET dt == parse_date_ymd(strftime(chosen_dt))
       IN refs' = [sat \in Range(Sats) |->
                      ref_text(get_reference_date(dt, REFERENCE_DATES[sat], PERIODS[sat]))]
    /\ pc' = "render"
    /\ UNCHANGED <<chosen_dt, planVars, aoi_choice, disk, uploads, raw, AOI_GDF,
                   uploaded_files, REFERENCE_DATES, RAW_FEATS, GDFS, coverage_union,
                   layers, coverage_percent, messages>>

\* The map: the AOI layer, then the satellite loop.
Render ==
    /\ pc = "render"
    /\ LET acc == render_sats(Sats, RAW_FEATS, GDFS, refs, AOI_GDF, <<NoUnion, {}>>)
       IN /\ coverage_union' = acc[1]
          /\ layers' = acc[2] \cup (IF AoiPresent(AOI_GDF) THEN {"AOI"} ELSE {})
    /\ pc' = "coverage"
    /\ UNCHANGED <<chosen_dt, planVars, aoi_choice, disk, uploads, raw, AOI_GDF,
                   uploaded_files, REFERENCE_DATES, RAW_FEATS, GDFS, refs,
                   coverage_percent, messages>>

\* The coverage readout.
Coverage ==
    /\ pc = "coverage"
    /\ coverage_percent' =
          IF ~AOI_GDF.isNone /\ ~coverage_union.isNone
          THEN coverage_percent_of(AOI_GDF, coverage_union)
          ELSE NotShown
    /\ pc' = "done"
    /\ UNCHANGED <<chosen_dt, planVars, aoi_choice, disk, uploads, raw, AOI_GDF,
                   uploaded_files, REFERENCE_DATES, RAW_FEATS, GDFS, refs,
                   coverage_union, layers, messages>>

Next ==
    \/ LoadAoi
    \/ CollectPlans
    \/ StopForMissingPlan
    \/ CrashOnBadPlan
    \/ LoadPlans
    \/ ResolveAll
    \/ Render
    \/ Coverage

Spec == Init /\ [][Next]_vars

\* A plan for which there is neither a local file nor an upload.
Unavailable(sat) == ~disk[DEFAULT_FILES[sat]].present /\ ~uploads[PlanKey(sat)].present

\* C5: when the bytes of any one of the five plans are unavailable, the run
\* shows the prompt and stops; plan parsing, date resolution, map rendering
\* and the readout are never reached, and are reached only with all five.
C5_MissingPlanStops ==
    /\ (\E sat \in Range(Sats) : Unavailable(sat)) =>
          /\ pc \in {"aoi", "plans", "gate", "stopped"}
          /\ REFERENCE_DATES = BySat(<<>>)
          /\ refs = BySat(<<>>)
          /\ layers = {}
          /\ coverage_percent = NotShown
          /\ pc = "gate" => any_plan_missing(uploaded_files)
    /\ pc = "stopped" => <<"info", "provide all five">> \in messages
    /\ pc \in {"crashed", "pick", "render", "coverage", "done"} =>
          \A sat \in Range(Sats) : uploaded_files[sat].present

\* C5 witness: a run stopped at the prompt with exactly one plan missing.
C5_Witness ==
    /\ pc = "stopped"
    /\ Cardinality({sat \in Range(Sats) : Unavailable(sat)}) = 1
    /\ <<"info", "provide all five">> \in messages

\* The AOI as one geometry.
AoiUnion == UNION Range(AOI_GDF.geoms)

\* The rows of a satellite that carry its resolved date and intersect the AOI.
Contributing(sat) ==
    {i \in DOMAIN RAW_FEATS[sat] :
        /\ feature_has_target_date(RAW_FEATS[sat][i].properties, refs[sat])
        /\ GDFS[sat][i] \cap AoiUnion # {}}

\* C6: the readout is shown only when an AOI is present and some satellite
\* has a feature carrying its resolved date and intersecting the AOI; with
\* no AOI, or with no such feature, a finished run shows no readout.
C6_ReadoutOnlyWithCoverage ==
    /\ coverage_percent # NotShown =>
          /\ aoi_choice # "(None)"
          /\ AoiPresent(AOI_GDF)
          /\ \E sat \in Range(Sats) : Contributing(sat) # {}
    /\ ( /\ pc = "done"
         /\ \/ ~AoiPresent(AOI_GDF)
            \/ \A sat \in Range(Sats) : Contributing(sat) = {} ) =>
          coverage_percent = NotShown

\* C6 witness: a finished run with an AOI on the map, a satellite whose plan
\* carries its resolved date, no feature intersecting the AOI, and no readout.
C6_Witness ==
    /\ pc = "done"
    /\ AoiPresent(AOI_GDF)
    /\ \E sat \in Range(Sats) : keep_idxs_of(RAW_FEATS[sat], refs[sat]) # {}
    /\ \A sat \in Range(Sats) : Contributing(sat) = {}
    /\ coverage_percent = NotShown

\* The union over all satellites of their contributing features.
CoveredUnion == UNION {GDFS[sat][i] : <<sat, i>> \in
                          {t \in Range(Sats) \X (1..2) : t[2] \in Contributing(t[1])}}

\* C7: a shown readout is area(AOI /\ U) / area(AOI) x 100 to two decimals,
\* U the union of the contributing features, area covered more than once
\* counted once; it lies in 0..100, and AOI area 100 with covered area 25
\* reads 25.00.
C7_CoverageIsUnionRatio ==
    coverage_percent # NotShown =>
        LET a == area(AoiUnion)
            c == area(AoiUnion \cap CoveredUnion)
            e == coverage_percent * a - c * 100 * 100
        IN /\ a > 0
           /\ coverage_percent >= 0 /\ coverage_percent <= 100 * 100
           /\ 2 * e <= a /\ 2 * (0 - e) <= a
           /\ (a = 100 /\ c = 25) => coverage_percent = 25 * 100

\* C7 witness: AOI area 100, covered area 25 drawn by two satellites over
\* the same cell, and the readout 25.00.
C7_Witness ==
    /\ pc = "done"
    /\ area(AoiUnion) = 100
    /\ area(AoiUnion \cap CoveredUnion) = 25
    /\ Cardinality(layers \ {"AOI"}) >= 2
    /\ coverage_percent = 25 * 100

\* The satellites with a feature carrying the resolved date.
DatedSats == {sat \in Range(Sats) : keep_idxs_of(RAW_FEATS[sat], refs[sat]) # {}}

\* C9: load_aoi takes the bytes of the primary path, else of the fallback
\* path for the Qatari EEZ only, else of the upload; with no bytes or bytes
\* that do not parse it returns none with a warning or an error, and the
\* run goes on: it stops only for a missing plan, and a finished run with
\* no AOI draws every dated satellite unrestricted and shows no readout.
C9_AoiOrderAndNonFatal ==
    /\ (pc # "aoi" /\ aoi_choice \in DOMAIN AOI_FILES) =>
          /\ raw = IF disk[AOI_FILES[aoi_choice]].present THEN disk[AOI_FILES[aoi_choice]]
                   ELSE IF aoi_choice = "Qatari EEZ" /\ disk[QATARI_FALLBACK].present
                        THEN disk[QATARI_FALLBACK]
                        ELSE uploads[AoiKey(aoi_choice)]
          /\ ~raw.present => (AOI_GDF.isNone /\ <<"warning", "aoi">> \in messages)
          /\ (raw.present /\ ~raw.json) => (AOI_GDF.isNone /\ <<"error", "aoi">> \in messages)
          /\ AOI_GDF.isNone =>
                (<<"warning", "aoi">> \in messages \/ <<"error", "aoi">> \in messages)
    /\ pc = "stopped" => \E sat \in Range(Sats) : Unavailable(sat)
    /\ (pc = "done" /\ AOI_GDF.isNone) =>
          /\ layers = DatedSats
          /\ coverage_percent = NotShown

\* C9 witness: the Saudi Arabia EEZ chosen with only the Qatari fallback
\* file on disk: no AOI, a warning, and a finished run with layers drawn.
C9_Witness ==
    /\ pc = "done"
    /\ aoi_choice = "Saudi Arabia EEZ"
    /\ disk[QATARI_FALLBACK].present
    /\ AOI_GDF.isNone
    /\ <<"warning", "aoi">> \in messages
    /\ layers # {}

=============================================================================
